---- MODULE Spec2Model ----
(***************************************************************************)
(* CurlResponse::new (src/lib.rs 305-336): the parser that turns the raw   *)
(* standard output of a `curl -i` run into status_code, headers and body.  *)
(*                                                                         *)
(* Text is a sequence of Unicode scalar values (integers); the captured    *)
(* output is a sequence of bytes (integers 0..255).  The for loop over the *)
(* blocks is one step per iteration, so that the order of the scan is      *)
(* visible; the unwrap of the parse at line 321 has the two outcomes the   *)
(* build has: a value, or a panic.                                         *)
(***************************************************************************)
EXTENDS Integers, Sequences, FiniteSets, TLC

VARIABLES sent, stdout, pc, blocks, idx, status_code, headers, body

vars == <<sent, stdout, pc, blocks, idx, status_code, headers, body>>

----------------------------------------------------------------------------
(* Characters *)

CR == 13
LF == 10
REPLACEMENT == 65533

\* "\r\n"
CRLF == <<CR, LF>>

\* "\r\n\r\n", the separator of line 307
SEP == <<CR, LF, CR, LF>>

\* "HTTP/", the literal prefix of the pattern of line 308
HTTP == <<72, 84, 84, 80, 47>>

\* char::is_whitespace / regex \s: the Unicode White_Space property
IsWhitespace(c) ==
    \/ c \in 9..13
    \/ c = 32
    \/ c = 133
    \/ c = 160
    \/ c = 5760
    \/ c \in 8192..8202
    \/ c \in {8232, 8233, 8239, 8287, 12288}

\* '0'..'9', the only digits str::parse::<u16> accepts
IsAsciiDigit(c) == c \in 48..57

\* regex \d with Unicode enabled (the crate's default): general category Nd.
\* The ranges of the Basic Multilingual Plane up to U+1BB9 and the fullwidth
\* digits; every range is a run of ten digits 0..9.
NdStarts ==
    {48, 1632, 1776, 1984, 2406, 2534, 2662, 2790, 2918, 3046, 3174, 3302,
     3430, 3558, 3664, 3792, 3872, 4160, 4240, 6112, 6160, 6470, 6608, 6784,
     6800, 6992, 7088, 65296}

IsDigit(c) == \E s \in NdStarts : c \in s..(s + 9)

----------------------------------------------------------------------------
(* String::from_utf8_lossy, line 306 *)

IsCont(b, i, lo, hi) == i <= Len(b) /\ b[i] >= lo /\ b[i] <= hi

\* The scalar value and the number of bytes consumed at position i: a
\* well-formed sequence decodes to its scalar value, a maximal ill-formed
\* prefix becomes one U+FFFD.
DecodeAt(b, i) ==
    LET b0 == b[i] IN
    IF b0 < 128 THEN <<b0, 1>>
    ELSE IF b0 \in 194..223 THEN
        IF IsCont(b, i + 1, 128, 191)
        THEN <<(b0 - 192) * 64 + (b[i + 1] - 128), 2>>
        ELSE <<REPLACEMENT, 1>>
    ELSE IF b0 \in 224..239 THEN
        LET lo == IF b0 = 224 THEN 160 ELSE 128
            hi == IF b0 = 237 THEN 159 ELSE 191
        IN  IF ~IsCont(b, i + 1, lo, hi) THEN <<REPLACEMENT, 1>>
            ELSE IF ~IsCont(b, i + 2, 128, 191) THEN <<REPLACEMENT, 2>>
            ELSE <<(b0 - 224) * 4096 + (b[i + 1] - 128) * 64 + (b[i + 2] - 128), 3>>
    ELSE IF b0 \in 240..244 THEN
        LET lo == IF b0 = 240 THEN 144 ELSE 128
            hi == IF b0 = 244 THEN 143 ELSE 191
        IN  IF ~IsCont(b, i + 1, lo, hi) THEN <<REPLACEMENT, 1>>
            ELSE IF ~IsCont(b, i + 2, 128, 191) THEN <<REPLACEMENT, 2>>
            ELSE IF ~IsCont(b, i + 3, 128, 191) THEN <<REPLACEMENT, 3>>
            ELSE <<(b0 - 240) * 262144 + (b[i + 1] - 128) * 4096
                     + (b[i + 2] - 128) * 64 + (b[i + 3] - 128), 4>>
    ELSE <<REPLACEMENT, 1>>

RECURSIVE DecodeFrom(_, _, _)
DecodeFrom(b, i, acc) ==
    IF i > Len(b) THEN acc
    ELSE LET d == DecodeAt(b, i) IN DecodeFrom(b, i + d[2], Append(acc, d[1]))

from_utf8_lossy(b) == DecodeFrom(b, 1, <<>>)

----------------------------------------------------------------------------
(* str::split("\r\n\r\n"), line 307 *)

\* pat occurs in s at position i
OccursAt(s, i, pat) ==
    /\ i >= 1
    /\ i + Len(pat) - 1 <= Len(s)
    /\ \A k \in 1..Len(pat) : s[i + k - 1] = pat[k]

RECURSIVE SplitFrom(_, _, _, _)
SplitFrom(s, start, i, acc) ==
    IF i + 3 > Len(s) THEN Append(acc, SubSeq(s, start, Len(s)))
    ELSE IF OccursAt(s, i, SEP)
         THEN SplitFrom(s, i + 4, i + 4, Append(acc, SubSeq(s, start, i - 1)))
         ELSE SplitFrom(s, start, i + 1, acc)

\* The pieces between the non-overlapping occurrences of the separator,
\* found left to right; always at least one piece.
split(s) == SplitFrom(s, 1, 1, <<>>)

\* The first block taken where the last one is meant
first_block(bs) == bs[1]

\* blocks.last().unwrap(), line 328
last(bs) == bs[Len(bs)]

----------------------------------------------------------------------------
(* Regex HTTP/.*?\s(\d{3}), lines 308 and 313 *)

\* After the literal: the lazy .*? takes as few characters as it can, none of
\* them a line feed, until \s and three \d follow.  The position of the \s,
\* or 0 when the match cannot be completed from this start.
RECURSIVE LazyScan(_, _)
LazyScan(s, k) ==
    IF k + 3 > Len(s) THEN 0
    ELSE IF /\ IsWhitespace(s[k])
            /\ IsDigit(s[k + 1]) /\ IsDigit(s[k + 2]) /\ IsDigit(s[k + 3])
         THEN k
    ELSE IF s[k] = LF THEN 0
    ELSE LazyScan(s, k + 1)

\* The literal without its slash
PrefixNoSlash(s, p) ==
    IF OccursAt(s, p, <<72, 84, 84, 80>>) THEN LazyScan(s, p + 4) ELSE 0

MatchAt(s, p) ==
    IF OccursAt(s, p, HTTP) THEN LazyScan(s, p + 5) ELSE 0

RECURSIVE SearchFrom(_, _)
SearchFrom(s, p) ==
    IF p + 8 > Len(s) THEN 0
    ELSE LET k == MatchAt(s, p) IN IF k # 0 THEN k ELSE SearchFrom(s, p + 1)

\* re.captures(block): group 1 of the leftmost match, <<>> for None
captures(block) ==
    LET k == SearchFrom(block, 1) IN
    IF k = 0 THEN <<>> ELSE SubSeq(block, k + 1, k + 3)

\* The redirect test left out
NeverRedirect(code) == FALSE

\* code.as_str().starts_with("3"), line 318
starts_with_3(code) == Len(code) >= 1 /\ code[1] = 51

\* code.as_str().parse::<u16>(), line 321: -1 stands for Err
RECURSIVE ParseDigits(_, _, _)
ParseDigits(code, i, acc) ==
    IF i > Len(code) THEN acc
    ELSE ParseDigits(code, i + 1, acc * 10 + (code[i] - 48))

parse_u16(code) ==
    IF code = <<>> \/ \E i \in 1..Len(code) : ~IsAsciiDigit(code[i]) THEN -1
    ELSE LET v == ParseDigits(code, 1, 0) IN IF v > 65535 THEN -1 ELSE v

----------------------------------------------------------------------------
(* str::lines, str::trim, lines 323-328 *)

RECURSIVE TrimStart(_)
TrimStart(s) ==
    IF s # <<>> /\ IsWhitespace(s[1]) THEN TrimStart(Tail(s)) ELSE s

RECURSIVE TrimEnd(_)
TrimEnd(s) ==
    IF s # <<>> /\ IsWhitespace(s[Len(s)])
    THEN TrimEnd(SubSeq(s, 1, Len(s) - 1)) ELSE s

\* The line kept as it is
NoTrim(s) == s

\* str::trim
trim(s) == TrimEnd(TrimStart(s))

\* One piece of split_inclusive('\n') with its line ending removed: "\n" or
\* "\r\n" when the piece ends with a line feed, nothing otherwise (a bare
\* carriage return at the end of the text stays).
StripEnding(piece) ==
    LET n == Len(piece) IN
    IF n >= 1 /\ piece[n] = LF
    THEN IF n >= 2 /\ piece[n - 1] = CR
         THEN SubSeq(piece, 1, n - 2)
         ELSE SubSeq(piece, 1, n - 1)
    ELSE piece

RECURSIVE LinesFrom(_, _, _, _)
LinesFrom(s, start, i, acc) ==
    IF i > Len(s)
    THEN IF start > Len(s) THEN acc
         ELSE Append(acc, StripEnding(SubSeq(s, start, Len(s))))
    ELSE IF s[i] = LF
         THEN LinesFrom(s, i + 1, i + 1, Append(acc, StripEnding(SubSeq(s, start, i))))
         ELSE LinesFrom(s, start, i + 1, acc)

lines(s) == LinesFrom(s, 1, 1, <<>>)

\* No line skipped
SkipNone(ls) == ls

\* .skip(1)
skip1(ls) == IF ls = <<>> THEN <<>> ELSE Tail(ls)

\* .take_while(|line| !line.is_empty())
RECURSIVE take_while_nonempty(_)
take_while_nonempty(ls) ==
    IF ls = <<>> \/ ls[1] = <<>> THEN <<>>
    ELSE <<ls[1]>> \o take_while_nonempty(Tail(ls))

\* .map(|line| line.trim().to_string())
map_trim(ls) == [i \in 1..Len(ls) |-> trim(ls[i])]

\* The header expression of lines 322-327
ExtractHeaders(block) == map_trim(take_while_nonempty(skip1(lines(block))))

----------------------------------------------------------------------------
(* The captured standard output, Curl::send lines 271-272 *)

MaxHdrs == 2

\* "HTTP/1.1 200 OK"
SL200 == <<72, 84, 84, 80, 47, 49, 46, 49, 32, 50, 48, 48, 32, 79, 75>>
\* "HTTP/1.1 302 Found"
SL302 == <<72, 84, 84, 80, 47, 49, 46, 49, 32, 51, 48, 50, 32, 70, 111, 117, 110, 100>>
\* "HTTP/1.1 404 Not Found"
SL404 == <<72, 84, 84, 80, 47, 49, 46, 49, 32, 52, 48, 52, 32, 78, 111, 116, 32, 70, 111, 117, 110, 100>>
\* "HTTP/2 099"
SL099 == <<72, 84, 84, 80, 47, 50, 32, 48, 57, 57>>
\* "HTTP/2 000"
SL000 == <<72, 84, 84, 80, 47, 50, 32, 48, 48, 48>>
\* "HTTP/2 " and the Arabic-Indic digits U+0661 U+0662 U+0663 in UTF-8
SLArabic == <<72, 84, 84, 80, 47, 50, 32, 217, 161, 217, 162, 217, 163>>

StatusLines == {SL200, SL302, SL404, SL099, SL000, SLArabic}

\* " A: b " and a line of one space
HeaderLines == {<<32, 65, 58, 32, 98, 32>>, <<32>>}

HeaderSeqs == UNION {[1..n -> HeaderLines] : n \in 0..MaxHdrs}

NoMessage == [status |-> <<>>, hdrs |-> <<>>]

Messages == [status : StatusLines, hdrs : HeaderSeqs]

\* What stands before the first message: nothing, "x", an invalid byte and a
\* blank line, or the line "HTTP 200" (no slash)
Preambles ==
    {<<>>, <<120, 255, CR, LF, CR, LF>>, <<72, 84, 84, 80, 32, 50, 48, 48, LF>>}

\* The response body as its paragraphs (the pieces between blank lines):
\* "", " hi ", and "p" blank line "q"
Bodies == {<<<<>>>>, <<<<32, 104, 105, 32>>>>, <<<<112>>, <<113>>>>}

RECURSIVE Join(_, _)
Join(pieces, sep) ==
    IF pieces = <<>> THEN <<>>
    ELSE IF Len(pieces) = 1 THEN pieces[1]
    ELSE pieces[1] \o sep \o Join(Tail(pieces), sep)

\* One message as curl -i prints it: the status line, the header lines, a
\* blank line
RenderMessage(m) ==
    IF m = NoMessage THEN <<>>
    ELSE Join(<<m.status>> \o m.hdrs, CRLF) \o SEP

Render(c) ==
    c.pre \o RenderMessage(c.first) \o RenderMessage(c.second) \o Join(c.tail, SEP)

Captures ==
    [pre : Preambles,
     first : Messages \cup {NoMessage},
     second : Messages \cup {NoMessage},
     tail : Bodies]

----------------------------------------------------------------------------
(* CurlResponse::new, lines 305-336 *)

Init ==
    /\ sent \in Captures
    /\ stdout = Render(sent)
    /\ pc = "start"
    /\ blocks = <<>>
    /\ idx = 0
    /\ status_code = 0
    /\ headers = <<>>
    /\ body = <<>>

\* lines 306-311: decode, split, initialise the three results
Decode ==
    /\ pc = "start"
    /\ blocks' = split(from_utf8_lossy(stdout))
    /\ idx' = 1
    /\ status_code' = 0
    /\ headers' = <<>>
    /\ body' = <<>>
    /\ pc' = "loop"
    /\ UNCHANGED <<sent, stdout>>

AtBlock == pc = "loop" /\ idx <= Len(blocks)

\* lines 313-316: no match in this block, continue
NoMatch ==
    /\ AtBlock
    /\ captures(blocks[idx]) = <<>>
    /\ idx' = idx + 1
    /\ UNCHANGED <<sent, stdout, pc, blocks, status_code, headers, body>>

\* lines 317-320: the code starts with "3", continue
Redirect ==
    /\ AtBlock
    /\ captures(blocks[idx]) # <<>>
    /\ starts_with_3(captures(blocks[idx]))
    /\ idx' = idx + 1
    /\ UNCHANGED <<sent, stdout, pc, blocks, status_code, headers, body>>

\* line 321: parse() returned Err and unwrap panics
ParsePanic ==
    /\ AtBlock
    /\ captures(blocks[idx]) # <<>>
    /\ ~starts_with_3(captures(blocks[idx]))
    /\ parse_u16(captures(blocks[idx])) = -1
    /\ pc' = "panic"
    /\ UNCHANGED <<sent, stdout, blocks, idx, status_code, headers, body>>

\* The selection without the break of line 329: the scan goes on
SelectNoBreak ==
    /\ AtBlock
    /\ captures(blocks[idx]) # <<>>
    /\ ~starts_with_3(captures(blocks[idx]))
    /\ parse_u16(captures(blocks[idx])) # -1
    /\ status_code' = parse_u16(captures(blocks[idx]))
    /\ headers' = ExtractHeaders(blocks[idx])
    /\ body' = trim(last(blocks))
    /\ idx' = idx + 1
    /\ UNCHANGED <<sent, stdout, blocks, pc>>

\* lines 321-329: the block is selected, break, and lines 331-335 return
Select ==
    /\ AtBlock
    /\ captures(blocks[idx]) # <<>>
    /\ ~starts_with_3(captures(blocks[idx]))
    /\ parse_u16(captures(blocks[idx])) # -1
    /\ status_code' = parse_u16(captures(blocks[idx]))
    /\ headers' = ExtractHeaders(blocks[idx])
    /\ body' = trim(last(blocks))
    /\ pc' = "done"
    /\ UNCHANGED <<sent, stdout, blocks, idx>>

\* line 312 runs out of blocks, lines 331-335 return
Exhausted ==
    /\ pc = "loop"
    /\ idx > Len(blocks)
    /\ pc' = "done"
    /\ UNCHANGED <<sent, stdout, blocks, idx, status_code, headers, body>>

Next == Decode \/ NoMatch \/ Redirect \/ ParsePanic \/ Select \/ Exhausted

Spec == Init /\ [][Next]_vars

TypeOK ==
    /\ pc \in {"start", "loop", "done", "panic"}
    /\ status_code \in 0..65535

----------------------------------------------------------------------------
(* Properties *)

\* CurlResponse::new has returned its value
Returned == pc = "done"

\* The block's status-line match exists and its code does not start with '3'
Qualifies(block) ==
    captures(block) # <<>> /\ ~starts_with_3(captures(block))

\* Some block of the split qualifies
SomeQualifies == \E i \in 1..Len(blocks) : Qualifies(blocks[i])

\* The code a well-formed status line of the model carries
CodeOf(line) ==
    IF line = SL200 THEN 200
    ELSE IF line = SL404 THEN 404
    ELSE IF line = SL302 THEN 302
    ELSE IF line = SL099 THEN 99
    ELSE 0

\* The header lines of a message as text, each trimmed
TrimmedHeaders(m) == [i \in 1..Len(m.hdrs) |-> trim(from_utf8_lossy(m.hdrs[i]))]

\* C1: new never fails: no input reaches a panic.
C1_NeverFails == pc # "panic"

C3_ThreeDigitValue ==
    (Returned /\ status_code # 0) =>
        (status_code \in 100..999 /\ status_code \notin 300..399)

\* C3 amended: a nonzero status_code is the value of a three-digit code whose
\* first digit is not '3' (leading zeros allowed): it is in 1..999 and not in
\* 300..399.
C3_NonzeroNotRedirect ==
    (Returned /\ status_code # 0) =>
        (status_code \in 1..999 /\ status_code \notin 300..399)

\* C3 witness: a redirect hop was skipped and the code "099" came back as 99.
C3_Witness ==
    /\ Returned
    /\ sent.first # NoMessage /\ sent.first.status = SL302
    /\ status_code = 99

\* The capture is one well-formed message: a status line with a non-3xx code,
\* its header lines, a blank line, the body
SingleMessage ==
    /\ sent.pre = <<>>
    /\ sent.first # NoMessage
    /\ sent.first.status \in {SL200, SL404}
    /\ sent.second = NoMessage

\* C4: for a single well-formed message new returns its code, its header
\* lines in order, each trimmed, and the trimmed body text.
C4_SingleMessage ==
    SingleMessage =>
        /\ pc # "panic"
        /\ Returned =>
            /\ status_code = CodeOf(sent.first.status)
            /\ headers = TrimmedHeaders(sent.first)
            /\ body = trim(from_utf8_lossy(Join(sent.tail, SEP)))

\* The capture is a 3xx message, then a 2xx or 4xx message, then body text
RedirectThenFinal ==
    /\ sent.pre = <<>>
    /\ sent.first # NoMessage /\ sent.first.status = SL302
    /\ sent.second # NoMessage /\ sent.second.status \in {SL200, SL404}

\* C5: for a 3xx message followed by a non-3xx message and body text, new
\* returns the second message's code and headers, and body is the trimmed text
\* after the last separator.
C5_RedirectSkipped ==
    RedirectThenFinal =>
        /\ pc # "panic"
        /\ Returned =>
            /\ status_code = CodeOf(sent.second.status)
            /\ headers = TrimmedHeaders(sent.second)
            /\ body = trim(from_utf8_lossy(sent.tail[Len(sent.tail)]))

\* C5 witness: both messages carry headers, the final one two different ones,
\* the body has a blank line in it, and new has returned.
C5_Witness ==
    /\ RedirectThenFinal
    /\ Returned
    /\ Len(sent.first.hdrs) > 0
    /\ Len(headers) = 2 /\ headers[1] # headers[2]
    /\ Len(sent.tail) = 2
    /\ body # <<>>

\* The decoded text has no "HTTP/" with three digits (of the pattern's digit
\* class) anywhere after it
NoHttpCode ==
    LET text == from_utf8_lossy(stdout) IN
    ~ \E i \in 1..Len(text) :
        /\ OccursAt(text, i, <<72, 84, 84, 80, 47>>)
        /\ \E j \in (i + 5)..(Len(text) - 2) :
              \A d \in 0..2 : \E s \in NdStarts : text[j + d] \in s..(s + 9)

\* C6: an input without "HTTP/" followed by a three-digit code gives
\* status_code 0 and no headers.
C6_NoStatusLine ==
    NoHttpCode =>
        /\ pc # "panic"
        /\ Returned => (status_code = 0 /\ headers = <<>>)

\* C6 witness: the capture has "HTTP 200" (no slash) and body text, and new
\* has returned.
C6_Witness ==
    /\ NoHttpCode
    /\ Returned
    /\ sent.pre = <<72, 84, 84, 80, 32, 50, 48, 48, LF>>
    /\ sent.tail = <<<<32, 104, 105, 32>>>>

\* One step of the scan of C7: the scan goes through the blocks in order.  A block with no match or
\* with a 3xx match is passed without touching status_code or headers; at the
\* first other block the scan ends (idx stays on it and the loop is left), and
\* when new returns from there status_code and headers are that block's; every
\* block before the current one was passed.
C7_Step ==
    /\ (AtBlock /\ ~Qualifies(blocks[idx])) =>
            /\ pc' = "loop"
            /\ idx' = idx + 1
            /\ status_code' = status_code
            /\ headers' = headers
    /\ (AtBlock /\ Qualifies(blocks[idx])) =>
            /\ pc' \in {"done", "panic"}
            /\ idx' = idx
            /\ pc' = "done" =>
                  /\ status_code' = parse_u16(captures(blocks[idx]))
                  /\ headers' = ExtractHeaders(blocks[idx])
    /\ pc' # "start" =>
            \A j \in 1..Len(blocks') : j < idx' => ~Qualifies(blocks'[j])

\* C7: every step of the scan is a step in block order as described above.
C7_ScanOrder == [][C7_Step]_vars

\* C7 witness: the first block had no match and was passed, the second was
\* selected with 200, and a later block has another non-3xx status line.
C7_Witness ==
    /\ Returned
    /\ idx = 2
    /\ captures(blocks[1]) = <<>>
    /\ status_code = 200
    /\ \E j \in 3..Len(blocks) : Qualifies(blocks[j])

\* Start of the leftmost match in a block that has one
MatchStart(block) ==
    CHOOSE p \in 1..Len(block) :
        MatchAt(block, p) # 0 /\ \A q \in 1..(p - 1) : MatchAt(block, q) = 0

\* Number of the line (from 1) on which position p of the block lies
LineOf(block, p) == 1 + Cardinality({q \in 1..(p - 1) : block[q] = LF})

\* C8: the headers are the lines after the status line (the line the match
\* was found on) up to the first empty line, each trimmed.
C8_HeadersAfterStatusLine ==
    (Returned /\ idx <= Len(blocks)) =>
        LET block == blocks[idx]
            n == LineOf(block, MatchStart(block))
            ls == lines(block)
        IN  headers = map_trim(take_while_nonempty(SubSeq(ls, n + 1, Len(ls))))

\* C9: a zero status_code comes with no headers.
C9_ZeroMeansNoHeaders == (Returned /\ status_code = 0) => headers = <<>>

\* C10 as stated: every header is non-empty and has no whitespace at either
\* end.
C10_HeadersNonEmptyTrimmed ==
    Returned =>
        \A i \in 1..Len(headers) :
            /\ headers[i] # <<>>
            /\ ~IsWhitespace(headers[i][1])
            /\ ~IsWhitespace(headers[i][Len(headers[i])])

\* C10 amended: every header has no whitespace at either end; only an empty
\* line ends the collection, and a line of whitespace is kept as the empty
\* string.
C10_HeadersTrimmed ==
    Returned =>
        \A i \in 1..Len(headers) :
            \/ headers[i] = <<>>
            \/ /\ ~IsWhitespace(headers[i][1])
               /\ ~IsWhitespace(headers[i][Len(headers[i])])

\* C10 witness: a header line with spaces around it came back trimmed, after
\* a line of one space that came back empty.
C10_Witness ==
    /\ Returned
    /\ Len(headers) = 2
    /\ headers[1] = <<>>
    /\ headers[2] = <<65, 58, 32, 98>>

====
